---- MODULE Spec2Model ----
(***************************************************************************)
(* The recommendation aggregation of the book recommender:                 *)
(* fetchRecommendationsForBooks (api.js) and buildGraphData                *)
(* (buildGraphData.js), run against a nondeterministic Open Library.       *)
(*                                                                         *)
(* JavaScript strings are sequences of one-character strings, so that      *)
(* toLowerCase, slugify and localeCompare are computed.  A JavaScript Set  *)
(* and the keys of a plain object keep insertion order: both are sequences *)
(* without repetition.  An action is the code that runs between two        *)
(* awaits: the handling of one lookup's answer up to the next lookup or    *)
(* the return.                                                             *)
(***************************************************************************)
EXTENDS Integers, Sequences, FiniteSets, TLC

VARIABLES
    roots,        \* buildGraphData's argument queryBooks
    pc,           \* "fetch": in fetchRecommendationsForBooks; "merge": it returned; "done"
    call,         \* 1..Len(roots): Step A for roots[call]; Len(roots)+1: Step B
    pos,          \* the lookup the current fetch awaits, or [phase |-> "ret"]
    recsMap,      \* fetchRecommendationsForBooks' recsMap
    recs,         \* what the last fetchRecommendationsForBooks returned
    allRecsMap,   \* buildGraphData's allRecsMap
    nodes,        \* buildGraphData's nodes
    links,        \* buildGraphData's links
    returnedFor,  \* history: <<root id, work id>>, a lookup made for the root returned the work
    isectReturned,\* history: the works the all-roots intersection lookups returned
    isectTagged,  \* history: the ids the all-roots intersection pass tagged
    failures,     \* the number of lookups that failed
    qualified,    \* history of the current call: <<root id, work id>>, a lookup made
                  \* for a root set with the root returned the work, not of the set
    issued,       \* history of the current call: the lookups issued, in order
    \* App.jsx
    appQueryBooks, \* the state queryBooks of App
    graphData,    \* the state graphData of App
    showSearch,   \* the state showSearch of App
    handlers,     \* the selections made: each one's suggestion, the queryBooks
                  \* its handleBookSearch closes over, and where it stands
    alerts        \* the number of alerts shown

buildVars == <<roots, pc, call, pos, recsMap, recs, allRecsMap, nodes, links,
               returnedFor, isectReturned, isectTagged, failures, qualified, issued>>

appVars == <<appQueryBooks, graphData, showSearch, handlers, alerts>>

vars == <<buildVars, appVars>>

----------------------------------------------------------------------------
\* Bounds of the model

\* the longest answer of a search made of the works of Catalog
MaxDocs == 1
\* the most lookups that fail during one buildGraphData
MaxFailures == 1
\* the most suggestions picked in one session
MaxSelections == 3

----------------------------------------------------------------------------
\* Program constants

\* mutant: the cap one too high
MAX_OffByOne == 10 + 1

MAX == 10
MAX_RECS_PER_ROOT == 10
\* limit=5 of the search URLs: the longest answer Open Library gives
LIMIT == 5

----------------------------------------------------------------------------
\* Sequences

Range(s) == {s[k] : k \in 1..Len(s)}

InSeq(x, s) == \E k \in 1..Len(s) : s[k] = x

\* mutant: an array push in place of Set.prototype.add
SetAdd_NoDedupe(s, x) == Append(s, x)

\* Set.prototype.add on an insertion-ordered set
SetAdd(s, x) == IF InSeq(x, s) THEN s ELSE Append(s, x)

RECURSIVE SetAddAll(_, _)
SetAddAll(s, xs) ==
    IF xs = <<>> THEN s ELSE SetAddAll(SetAdd(s, Head(xs)), Tail(xs))

\* new Set(array)
NewSet(xs) == SetAddAll(<<>>, xs)

\* Array.prototype.slice(0, n)
Slice(s, n) == SubSeq(s, 1, IF Len(s) < n THEN Len(s) ELSE n)

SeqsUpTo(S, n) == UNION {[1..k -> S] : k \in 0..n}

----------------------------------------------------------------------------
\* Strings

UpperChars == <<"A","B","C","D","E","F","G","H","I","J","K","L","M",
                "N","O","P","Q","R","S","T","U","V","W","X","Y","Z">>
LowerChars == <<"a","b","c","d","e","f","g","h","i","j","k","l","m",
                "n","o","p","q","r","s","t","u","v","w","x","y","z">>
DigitChars == <<"0","1","2","3","4","5","6","7","8","9">>

LowerChar(c) ==
    IF InSeq(c, UpperChars)
    THEN LowerChars[CHOOSE k \in 1..26 : UpperChars[k] = c]
    ELSE c

toLowerCase(s) == [k \in 1..Len(s) |-> LowerChar(s[k])]

IsSlugChar(c) == InSeq(c, LowerChars) \/ InSeq(c, DigitChars) \/ c = " "

\* replace(/\s+/g, "_") after the strip: every run of spaces becomes one "_"
RECURSIVE SpacesToUnderscore(_)
SpacesToUnderscore(s) ==
    IF s = <<>> THEN <<>>
    ELSE IF Head(s) # " " THEN <<Head(s)>> \o SpacesToUnderscore(Tail(s))
    ELSE IF Len(s) > 1 /\ s[2] = " " THEN SpacesToUnderscore(Tail(s))
    ELSE <<"_">> \o SpacesToUnderscore(Tail(s))

slugify(raw) == SpacesToUnderscore(SelectSeq(toLowerCase(raw), IsSlugChar))

CharRank(c) ==
    IF InSeq(c, DigitChars) THEN CHOOSE k \in 1..10 : DigitChars[k] = c
    ELSE IF InSeq(c, LowerChars) THEN 10 + (CHOOSE k \in 1..26 : LowerChars[k] = c)
    ELSE 0

\* the first level of the comparison: letters without their case
RECURSIVE PrimaryCompare(_, _)
PrimaryCompare(a, b) ==
    IF a = <<>> /\ b = <<>> THEN 0
    ELSE IF a = <<>> THEN -1
    ELSE IF b = <<>> THEN 1
    ELSE LET x == CharRank(LowerChar(Head(a)))
             y == CharRank(LowerChar(Head(b)))
         IN  IF x < y THEN -1
             ELSE IF x > y THEN 1
             ELSE PrimaryCompare(Tail(a), Tail(b))

\* the last level: at the first difference the lower-case letter comes first
RECURSIVE CaseCompare(_, _)
CaseCompare(a, b) ==
    IF a = <<>> \/ b = <<>> THEN 0
    ELSE IF Head(a) = Head(b) THEN CaseCompare(Tail(a), Tail(b))
    ELSE IF InSeq(Head(a), LowerChars) THEN -1 ELSE 1

\* String.prototype.localeCompare on digits and letters
localeCompare(a, b) ==
    IF PrimaryCompare(a, b) # 0 THEN PrimaryCompare(a, b) ELSE CaseCompare(a, b)

----------------------------------------------------------------------------
\* api.js: the generic subjects

GENERIC_SUBJECTS == {
    <<"f","i","c","t","i","o","n">>,
    <<"n","o","v","e","l","s">>,
    <<"a","m","e","r","i","c","a","n"," ","l","i","t","e","r","a","t","u","r","e">>,
    <<"c","h","i","l","d","r","e","n","'","s"," ","l","i","t","e","r","a","t","u","r","e">>,
    <<"b","i","o","g","r","a","p","h","y">>,
    <<"a","u","t","o","b","i","o","g","r","a","p","h","y">>,
    <<"l","i","t","e","r","a","t","u","r","e">>,
    <<"h","i","s","t","o","r","y">>,
    <<"p","o","e","t","r","y">>,
    <<"d","r","a","m","a">>,
    <<"m","e","m","o","i","r","s">>,
    <<"c","h","i","l","d","r","e","n","'","s"," ","s","t","o","r","i","e","s">> }


----------------------------------------------------------------------------
\* The works the user can select as roots: what fetchWorkByID resolved

s_Dragons == <<"D","r","a","g","o","n","s">>
s_dragons == <<"d","r","a","g","o","n","s">>
s_magic   == <<"m","a","g","i","c">>
s_Fiction == <<"F","i","c","t","i","o","n">>
s_punct   == <<"!","?">>
s_k1      == <<"k","1">>
s_k2      == <<"k","2">>
s_k3      == <<"K"," "," ","3">>
s_k4      == <<"k","4">>
s_POETRY  == <<"P","O","E","T","R","Y">>

bookA  == [id |-> "A",  title |-> <<"a">>, subjects |-> <<s_Dragons, s_Fiction>>]
bookB  == [id |-> "B",  title |-> <<"B">>, subjects |-> <<s_dragons, s_magic>>]
bookG  == [id |-> "G",  title |-> <<"b">>, subjects |-> <<s_Fiction, s_punct>>]
bookH1 == [id |-> "H1", title |-> <<"h">>, subjects |-> <<s_k1, s_k2, s_k3>>]
bookH2 == [id |-> "H2", title |-> <<"h">>, subjects |-> <<s_k1, s_k2, s_k3>>]
bookH3 == [id |-> "H3", title |-> <<"h">>, subjects |-> <<s_k4>>]
bookF  == [id |-> "F",  title |-> <<"a">>, subjects |-> <<s_Fiction, s_POETRY>>]

\* The root sequences buildGraphData is run on
RootSeqs == {
    <<bookA>>, <<bookB>>, <<bookG>>, <<bookH1>>, <<bookF>>, <<bookH1, bookH3>>,
    <<bookA, bookB>>, <<bookA, bookA>>,
    <<bookA, bookG>>, <<bookG, bookG>>, <<bookH1, bookA>>, <<bookH1, bookH2>>,
    <<bookG, bookH1, bookH2>>, <<bookH1, bookH2, bookH1>> }

----------------------------------------------------------------------------
\* Open Library: the docs a search may answer with

\* subject stands for the kind of d.subject: "array" when it is an array or
\* missing, "string" when the doc is malformed
Doc(key, title) == [key |-> key, title |-> title, subject |-> "array"]

slug_dragons == slugify(s_dragons)
slug_magic   == slugify(s_magic)
slug_k1      == slugify(s_k1)
slug_k2      == slugify(s_k2)
slug_k3      == slugify(s_k3)
slug_k4      == slugify(s_k4)

\* The works of the library, the roots among them, each under the subjects a
\* subject search finds it by; "" and <<>> stand for a missing key and a
\* missing title
Catalog == {
    [key |-> "X",  title |-> <<"b">>, subjects |-> {slug_dragons}],
    [key |-> "Y",  title |-> <<"a">>, subjects |-> {slug_magic}],
    [key |-> "A",  title |-> <<"a">>, subjects |-> {}],
    [key |-> "B",  title |-> <<"B">>, subjects |-> {slug_dragons}],
    [key |-> "G",  title |-> <<"b">>, subjects |-> {}],
    [key |-> "H1", title |-> <<"h">>, subjects |-> {}],
    [key |-> "H2", title |-> <<"h">>, subjects |-> {}],
    [key |-> "Z",  title |-> <<>>,    subjects |-> {slug_dragons}],
    [key |-> "",   title |-> <<"a">>, subjects |-> {}] }

\* the prolific subjects: a search answers with a full page of LIMIT works
FillIds == <<"F1","F2","F3","F4","F5","F6","F7","F8","F9","F10","F11","F12","F13">>
FillTitleChars == <<"q","P","p","Q">>
FillDoc(n) == Doc(FillIds[n], <<FillTitleChars[(n % 4) + 1]>>)
Window(n) == [k \in 1..LIMIT |-> FillDoc(n + k - 1)]
\* the same page with a malformed third doc
BrokenWindow(n) == [Window(n) EXCEPT ![3].subject = "string"]
\* a page of two further works followed by three of the first
WrapWindow == <<FillDoc(9), FillDoc(10), FillDoc(1), FillDoc(2), FillDoc(3)>>

\* A lookup: a subject search for a slug, or a title search
SubjectQuery(slug) == [kind |-> "subject", text |-> slug]
TitleQuery(title)  == [kind |-> "title", text |-> title]

\* the docs a search can find: the works under the subject, or the works
\* with the title whatever its case
Pool(q) ==
    {Doc(w.key, w.title) : w \in
        {v \in Catalog : IF q.kind = "subject" THEN q.text \in v.subjects
                         ELSE toLowerCase(v.title) = toLowerCase(q.text)}}

\* The answers (data.docs) the search may give to a query
Responses(q) ==
    IF q = SubjectQuery(slug_k1) THEN {Window(1), BrokenWindow(1)}
    ELSE IF q = SubjectQuery(slug_k4) THEN {WrapWindow}
    ELSE IF q = SubjectQuery(slug_k2) THEN {Window(4)}
    ELSE IF q = SubjectQuery(slug_k3) THEN {Window(9)}
    ELSE SeqsUpTo(Pool(q), MaxDocs)

----------------------------------------------------------------------------
\* api.js: fetchRecommendationsForBooks

\* mutant: the subjects are filtered as they are written, then lower-cased
FilteredSubjects_CaseSensitive(b) ==
    LET kept == SelectSeq(b.subjects, LAMBDA s : s \notin GENERIC_SUBJECTS)
    IN [k \in 1..Len(kept) |-> toLowerCase(kept[k])]

\* 1) a root's non-generic subjects
FilteredSubjects(b) ==
    SelectSeq([k \in 1..Len(b.subjects) |-> toLowerCase(b.subjects[k])],
              LAMBDA s : s \notin GENERIC_SUBJECTS)

bookFilteredSubjects(queryBooks) ==
    [k \in 1..Len(queryBooks) |-> FilteredSubjects(queryBooks[k])]

\* 2) the subjects of the first root that every other root has
RECURSIVE IntersectFrom(_, _, _)
IntersectFrom(acc, filtered, i) ==
    IF i > Len(filtered) THEN acc
    ELSE IntersectFrom(SelectSeq(acc, LAMBDA s : InSeq(s, filtered[i])), filtered, i + 1)

Intersection(queryBooks) ==
    IntersectFrom(bookFilteredSubjects(queryBooks)[1], bookFilteredSubjects(queryBooks), 2)

allRootIds(queryBooks) == NewSet([k \in 1..Len(queryBooks) |-> queryBooks[k].id])

IndexOfId(map, id) == CHOOSE k \in 1..Len(map) : map[k].id = id
HasId(map, id) == \E k \in 1..Len(map) : map[k].id = id

\* mutant: a new entry for every doc, also for a key recsMap already has
TagEntry_AlwaysAppend(map, d, rootIdsSet) ==
    Append(map, [id |-> d.key, title |-> d.title,
                 matchingBookIds |-> SetAddAll(<<>>, rootIdsSet)])

\* mutant: a new entry is left without the ids of rootIdsSet
TagEntry_NewUntagged(map, d, rootIdsSet) ==
    IF HasId(map, d.key)
    THEN [map EXCEPT ![IndexOfId(map, d.key)].matchingBookIds =
                         SetAddAll(@, rootIdsSet)]
    ELSE Append(map, [id |-> d.key, title |-> d.title, matchingBookIds |-> <<>>])

\* recsMap[workKey], created if missing, tagged with every id of rootIdsSet
TagEntry(map, d, rootIdsSet) ==
    IF HasId(map, d.key)
    THEN [map EXCEPT ![IndexOfId(map, d.key)].matchingBookIds =
                         SetAddAll(@, rootIdsSet)]
    ELSE Append(map, [id |-> d.key, title |-> d.title,
                      matchingBookIds |-> SetAddAll(<<>>, rootIdsSet)])

\* the entry of a doc cannot be made: (d.subject || []).map throws
EntryThrows(map, d) == ~HasId(map, d.key) /\ d.subject # "array"

\* the loop over data.docs of subjectSearchAndTag; a throw ends it
RECURSIVE TagDocs(_, _, _)
TagDocs(map, rootIdsSet, docs) ==
    IF docs = <<>> THEN map
    ELSE LET d == Head(docs) IN
         IF d.key = "" \/ d.title = <<>> THEN TagDocs(map, rootIdsSet, Tail(docs))
         ELSE IF InSeq(d.key, rootIdsSet) THEN TagDocs(map, rootIdsSet, Tail(docs))
         ELSE IF Len(map) >= MAX THEN map
         ELSE IF EntryThrows(map, d) THEN map
         ELSE TagDocs(TagEntry(map, d, rootIdsSet), rootIdsSet, Tail(docs))

\* whether that loop throws into the catch of subjectSearchAndTag
RECURSIVE TagDocsThrows(_, _, _)
TagDocsThrows(map, rootIdsSet, docs) ==
    IF docs = <<>> THEN FALSE
    ELSE LET d == Head(docs) IN
         IF d.key = "" \/ d.title = <<>> THEN TagDocsThrows(map, rootIdsSet, Tail(docs))
         ELSE IF InSeq(d.key, rootIdsSet) THEN TagDocsThrows(map, rootIdsSet, Tail(docs))
         ELSE IF Len(map) >= MAX THEN FALSE
         ELSE IF EntryThrows(map, d) THEN TRUE
         ELSE TagDocsThrows(TagEntry(map, d, rootIdsSet), rootIdsSet, Tail(docs))

\* the loop over data.docs of the title fallback; a throw ends it
RECURSIVE TitleTagDocs(_, _, _)
TitleTagDocs(map, rootId, docs) ==
    IF docs = <<>> THEN map
    ELSE LET d == Head(docs) IN
         IF d.key = "" \/ d.title = <<>> THEN TitleTagDocs(map, rootId, Tail(docs))
         ELSE IF d.key = rootId THEN TitleTagDocs(map, rootId, Tail(docs))
         ELSE IF Len(map) >= MAX THEN map
         ELSE IF EntryThrows(map, d) THEN map
         ELSE TitleTagDocs(TagEntry(map, d, <<rootId>>), rootId, Tail(docs))

\* whether that loop throws into the catch of the fallback
RECURSIVE TitleTagDocsThrows(_, _, _)
TitleTagDocsThrows(map, rootId, docs) ==
    IF docs = <<>> THEN FALSE
    ELSE LET d == Head(docs) IN
         IF d.key = "" \/ d.title = <<>> THEN TitleTagDocsThrows(map, rootId, Tail(docs))
         ELSE IF d.key = rootId THEN TitleTagDocsThrows(map, rootId, Tail(docs))
         ELSE IF Len(map) >= MAX THEN FALSE
         ELSE IF EntryThrows(map, d) THEN TRUE
         ELSE TitleTagDocsThrows(TagEntry(map, d, <<rootId>>), rootId, Tail(docs))

rootHasRec(map, rootId) ==
    \E k \in 1..Len(map) : InSeq(rootId, map[k].matchingBookIds)

Returns == [phase |-> "ret", i |-> 0, j |-> 0]

\* mutant: the fallback does not look whether the root has a recommendation
SeekTitle_NoRecCheck(map, queryBooks, i) ==
    IF i > Len(queryBooks) \/ Len(map) >= MAX THEN Returns
    ELSE [phase |-> "title", i |-> i, j |-> 0]

\* From a point of the three loops on, the next lookup that is issued:
\* 4) the title fallbacks from root i on
RECURSIVE SeekTitle(_, _, _)
SeekTitle(map, queryBooks, i) ==
    IF i > Len(queryBooks) \/ Len(map) >= MAX THEN Returns
    ELSE IF rootHasRec(map, queryBooks[i].id) THEN SeekTitle(map, queryBooks, i + 1)
    ELSE [phase |-> "title", i |-> i, j |-> 0]

\* mutant: the per-root loops go on when the map is full
RECURSIVE SeekPerRoot_NoCap(_, _, _, _)
SeekPerRoot_NoCap(map, queryBooks, i, j) ==
    IF i > Len(queryBooks) THEN SeekTitle(map, queryBooks, 1)
    ELSE IF j > Len(FilteredSubjects(queryBooks[i])) THEN SeekPerRoot_NoCap(map, queryBooks, i + 1, 1)
    ELSE IF slugify(FilteredSubjects(queryBooks[i])[j]) = <<>>
         THEN SeekPerRoot_NoCap(map, queryBooks, i, j + 1)
    ELSE [phase |-> "perroot", i |-> i, j |-> j]

\* 3) the per-root loops from subject j of root i on
RECURSIVE SeekPerRoot(_, _, _, _)
SeekPerRoot(map, queryBooks, i, j) ==
    IF i > Len(queryBooks) \/ Len(map) >= MAX THEN SeekTitle(map, queryBooks, 1)
    ELSE IF j > Len(FilteredSubjects(queryBooks[i])) THEN SeekPerRoot(map, queryBooks, i + 1, 1)
    ELSE IF slugify(FilteredSubjects(queryBooks[i])[j]) = <<>>
         THEN SeekPerRoot(map, queryBooks, i, j + 1)
    ELSE [phase |-> "perroot", i |-> i, j |-> j]

\* 2) the intersection loop from subject j on
RECURSIVE SeekIntersection(_, _, _)
SeekIntersection(map, queryBooks, j) ==
    IF j > Len(Intersection(queryBooks)) \/ Len(map) >= MAX
    THEN SeekPerRoot(map, queryBooks, 1, 1)
    ELSE IF slugify(Intersection(queryBooks)[j]) = <<>>
         THEN SeekIntersection(map, queryBooks, j + 1)
    ELSE [phase |-> "isect", i |-> 0, j |-> j]

\* the lookup a suspended call awaits
PendingQuery(queryBooks, p) ==
    IF p.phase = "isect" THEN SubjectQuery(slugify(Intersection(queryBooks)[p.j]))
    ELSE IF p.phase = "perroot"
         THEN SubjectQuery(slugify(FilteredSubjects(queryBooks[p.i])[p.j]))
    ELSE TitleQuery(queryBooks[p.i].title)

\* mutant: no comparison of the titles
CompareRecs_CountOnly(a, b) == Len(b.matchingBookIds) - Len(a.matchingBookIds)

\* 5) the comparator of allRecs.sort
CompareRecs(a, b) ==
    IF Len(b.matchingBookIds) # Len(a.matchingBookIds)
    THEN Len(b.matchingBookIds) - Len(a.matchingBookIds)
    ELSE localeCompare(a.title, b.title)

\* Array.prototype.sort is stable: x goes behind everything not after it
RECURSIVE InsertRec(_, _)
InsertRec(sorted, x) ==
    IF sorted = <<>> THEN <<x>>
    ELSE IF CompareRecs(x, Head(sorted)) < 0 THEN <<x>> \o sorted
    ELSE <<Head(sorted)>> \o InsertRec(Tail(sorted), x)

RECURSIVE SortRecs(_)
SortRecs(s) ==
    IF s = <<>> THEN <<>>
    ELSE InsertRec(SortRecs(SubSeq(s, 1, Len(s) - 1)), s[Len(s)])

\* what fetchRecommendationsForBooks returns from its recsMap
FetchResult(map) == Slice(SortRecs(map), MAX)


----------------------------------------------------------------------------
\* buildGraphData.js: buildGraphData

\* A node; a root node has no matchingBookIds and no isIntersection, which
\* are <<>> and FALSE here
RootNode(b) == [id |-> b.id, label |-> b.title, type |-> "root",
                matchingBookIds |-> <<>>, isIntersection |-> FALSE]
RecNode(e) == [id |-> e.id, label |-> e.title, type |-> "rec",
               matchingBookIds |-> e.matchingBookIds,
               isIntersection |-> e.isIntersection]

\* the ids of the set seen, which holds the id of every node pushed
Seen(ns) == {ns[k].id : k \in 1..Len(ns)}

\* 1) one node for each root not seen before
RECURSIVE AddRootNodes(_, _)
AddRootNodes(ns, queryBooks) ==
    IF queryBooks = <<>> THEN ns
    ELSE AddRootNodes(IF Head(queryBooks).id \in Seen(ns) THEN ns
                      ELSE Append(ns, RootNode(Head(queryBooks))),
                      Tail(queryBooks))

\* Step A, the forEach over the recs of one root
RECURSIVE MergeStepA(_, _)
MergeStepA(all, rs) ==
    IF rs = <<>> THEN all
    ELSE LET r == Head(rs) IN
         MergeStepA(
            IF HasId(all, r.id)
            THEN [all EXCEPT ![IndexOfId(all, r.id)].matchingBookIds =
                                 SetAddAll(@, r.matchingBookIds)]
            ELSE Append(all, [id |-> r.id, title |-> r.title,
                              matchingBookIds |-> NewSet(r.matchingBookIds),
                              isIntersection |-> FALSE]),
            Tail(rs))

\* mutant: an entry Step A made is not flagged as an intersection
RECURSIVE MergeStepB_NoFlag(_, _, _)
MergeStepB_NoFlag(all, rs, allRootIDs) ==
    IF rs = <<>> THEN all
    ELSE LET r == Head(rs) IN
         MergeStepB_NoFlag(
            IF HasId(all, r.id)
            THEN [all EXCEPT ![IndexOfId(all, r.id)].matchingBookIds =
                                 SetAddAll(@, allRootIDs)]
            ELSE Append(all, [id |-> r.id, title |-> r.title,
                              matchingBookIds |-> NewSet(allRootIDs),
                              isIntersection |-> TRUE]),
            Tail(rs), allRootIDs)

\* mutant: an entry Step A made does not get the ids of all roots
RECURSIVE MergeStepB_NoUnion(_, _, _)
MergeStepB_NoUnion(all, rs, allRootIDs) ==
    IF rs = <<>> THEN all
    ELSE LET r == Head(rs) IN
         MergeStepB_NoUnion(
            IF HasId(all, r.id)
            THEN [all EXCEPT ![IndexOfId(all, r.id)].isIntersection = TRUE]
            ELSE Append(all, [id |-> r.id, title |-> r.title,
                              matchingBookIds |-> NewSet(allRootIDs),
                              isIntersection |-> TRUE]),
            Tail(rs), allRootIDs)

\* Step B, the forEach over the recs of all roots together
RECURSIVE MergeStepB(_, _, _)
MergeStepB(all, rs, allRootIDs) ==
    IF rs = <<>> THEN all
    ELSE LET r == Head(rs) IN
         MergeStepB(
            IF HasId(all, r.id)
            THEN [all EXCEPT ![IndexOfId(all, r.id)] =
                     [@ EXCEPT !.matchingBookIds = SetAddAll(@, allRootIDs),
                               !.isIntersection = TRUE]]
            ELSE Append(all, [id |-> r.id, title |-> r.title,
                              matchingBookIds |-> NewSet(allRootIDs),
                              isIntersection |-> TRUE]),
            Tail(rs), allRootIDs)

\* mutant: Step B is run for a single root too
RunsStepB_Always(queryBooks) == Len(queryBooks) >= 1

\* Step B is run for 2 or more roots
RunsStepB(queryBooks) == Len(queryBooks) > 1

\* 3) the comparator of the sort of allRecsMap's values
CompareEntries(a, b) == Len(b.matchingBookIds) - Len(a.matchingBookIds)

RECURSIVE InsertEntry(_, _)
InsertEntry(sorted, x) ==
    IF sorted = <<>> THEN <<x>>
    ELSE IF CompareEntries(x, Head(sorted)) < 0 THEN <<x>> \o sorted
    ELSE <<Head(sorted)>> \o InsertEntry(Tail(sorted), x)

RECURSIVE SortEntries(_)
SortEntries(s) ==
    IF s = <<>> THEN <<>>
    ELSE InsertEntry(SortEntries(SubSeq(s, 1, Len(s) - 1)), s[Len(s)])

\* 4) one node for each rec not seen before
RECURSIVE AddRecNodes(_, _)
AddRecNodes(ns, allRecsArray) ==
    IF allRecsArray = <<>> THEN ns
    ELSE AddRecNodes(IF Head(allRecsArray).id \in Seen(ns) THEN ns
                     ELSE Append(ns, RecNode(Head(allRecsArray))),
                     Tail(allRecsArray))

\* mutant: every link is drawn as an intersection link
LinksOf_ValueTwo(e) ==
    [k \in 1..Len(e.matchingBookIds) |->
        [source |-> e.matchingBookIds[k], target |-> e.id, value |-> 2]]

\* 5) the links of one rec, one for each of its matchingBookIds
LinksOf(e) ==
    [k \in 1..Len(e.matchingBookIds) |->
        [source |-> e.matchingBookIds[k], target |-> e.id,
         value |-> IF e.isIntersection THEN 2 ELSE 1]]

RECURSIVE AddLinks(_, _)
AddLinks(ls, allRecsArray) ==
    IF allRecsArray = <<>> THEN ls
    ELSE AddLinks(ls \o LinksOf(Head(allRecsArray)), Tail(allRecsArray))

\* the argument of the call-th fetchRecommendationsForBooks of buildGraphData
QueryBooks(rs, c) == IF c <= Len(rs) THEN <<rs[c]>> ELSE rs

\* the ids of the docs that have a key and a title
WorkIds(docs) == {d.key : d \in {x \in Range(docs) : x.key # "" /\ x.title # <<>>}}

IsAllRootsCall == Len(roots) > 1 /\ call = Len(roots) + 1

\* the history of issued lookups with the lookup of position p, if it is one
Issue(hist, p) == IF p.phase = "ret" THEN hist ELSE Append(hist, p)

----------------------------------------------------------------------------
\* The state machine

\* what buildGraphData makes of its argument: the root nodes; the rec nodes
\* and the links are those of Spec below
GraphOf(books) == [nodes |-> AddRootNodes(<<>>, books), of |-> books]

\* App before any selection
InitApp ==
    /\ appQueryBooks = <<>>
    /\ graphData = [nodes |-> <<>>, of |-> <<>>]
    /\ showSearch = TRUE
    /\ handlers = <<>>
    /\ alerts = 0

Init ==
    /\ InitApp
    /\ roots \in RootSeqs
    /\ pc = "fetch"
    /\ call = 1
    /\ pos = SeekIntersection(<<>>, <<roots[1]>>, 1)
    /\ recsMap = <<>>
    /\ recs = <<>>
    /\ allRecsMap = <<>>
    /\ nodes = AddRootNodes(<<>>, roots)
    /\ links = <<>>
    /\ returnedFor = {}
    /\ isectReturned = {}
    /\ isectTagged = {}
    /\ failures = 0
    /\ qualified = {}
    /\ issued = Issue(<<>>, pos)

\* an intersection-subject search answers: subjectSearchAndTag with all root ids
IntersectionResponse ==
    /\ UNCHANGED appVars
    /\ pc = "fetch" /\ pos.phase = "isect"
    /\ LET qb == QueryBooks(roots, call) IN
       \E docs \in Responses(PendingQuery(qb, pos)) :
          LET map == TagDocs(recsMap, allRootIds(qb), docs)
              threw == TagDocsThrows(recsMap, allRootIds(qb), docs)
              ids == IF threw THEN {} ELSE WorkIds(docs)
          IN
          /\ threw => failures < MaxFailures
          /\ failures' = IF threw THEN failures + 1 ELSE failures
          /\ recsMap' = map
          /\ pos' = SeekIntersection(map, qb, pos.j + 1)
          /\ returnedFor' = returnedFor \cup (Range(allRootIds(qb)) \X WorkIds(docs))
          /\ qualified' = qualified \cup
                (Range(allRootIds(qb)) \X (ids \ Range(allRootIds(qb))))
          /\ isectReturned' = IF IsAllRootsCall THEN isectReturned \cup ids
                              ELSE isectReturned
          /\ isectTagged' = IF IsAllRootsCall THEN {map[k].id : k \in 1..Len(map)}
                            ELSE isectTagged
    /\ issued' = Issue(issued, pos')
    /\ UNCHANGED <<roots, pc, call, recs, allRecsMap, nodes, links>>

\* a per-root subject search answers: subjectSearchAndTag with that root's id
PerRootResponse ==
    /\ UNCHANGED appVars
    /\ pc = "fetch" /\ pos.phase = "perroot"
    /\ LET qb == QueryBooks(roots, call) IN
       \E docs \in Responses(PendingQuery(qb, pos)) :
          LET map == TagDocs(recsMap, <<qb[pos.i].id>>, docs)
              threw == TagDocsThrows(recsMap, <<qb[pos.i].id>>, docs)
              ids == IF threw THEN {} ELSE WorkIds(docs)
          IN
          /\ threw => failures < MaxFailures
          /\ failures' = IF threw THEN failures + 1 ELSE failures
          /\ recsMap' = map
          /\ pos' = SeekPerRoot(map, qb, pos.i, pos.j + 1)
          /\ returnedFor' = returnedFor \cup ({qb[pos.i].id} \X WorkIds(docs))
          /\ qualified' = qualified \cup ({qb[pos.i].id} \X (ids \ {qb[pos.i].id}))
    /\ issued' = Issue(issued, pos')
    /\ UNCHANGED <<roots, pc, call, recs, allRecsMap, nodes, links, isectReturned, isectTagged>>

\* a subject search fails: the catch of subjectSearchAndTag
SubjectSearchFails ==
    /\ UNCHANGED appVars
    /\ pc = "fetch" /\ pos.phase \in {"isect", "perroot"}
    /\ failures < MaxFailures
    /\ failures' = failures + 1
    /\ LET qb == QueryBooks(roots, call) IN
       pos' = IF pos.phase = "isect" THEN SeekIntersection(recsMap, qb, pos.j + 1)
              ELSE SeekPerRoot(recsMap, qb, pos.i, pos.j + 1)
    /\ issued' = Issue(issued, pos')
    /\ UNCHANGED <<roots, pc, call, recsMap, recs, allRecsMap, nodes, links,
                   returnedFor, isectReturned, isectTagged, qualified>>

\* a title search answers
TitleResponse ==
    /\ UNCHANGED appVars
    /\ pc = "fetch" /\ pos.phase = "title"
    /\ LET qb == QueryBooks(roots, call) IN
       \E docs \in Responses(PendingQuery(qb, pos)) :
          LET map == TitleTagDocs(recsMap, qb[pos.i].id, docs)
              threw == TitleTagDocsThrows(recsMap, qb[pos.i].id, docs)
              ids == IF threw THEN {} ELSE WorkIds(docs)
          IN
          /\ threw => failures < MaxFailures
          /\ failures' = IF threw THEN failures + 1 ELSE failures
          /\ recsMap' = map
          /\ pos' = SeekTitle(map, qb, pos.i + 1)
          /\ returnedFor' = returnedFor \cup ({qb[pos.i].id} \X WorkIds(docs))
          /\ qualified' = qualified \cup ({qb[pos.i].id} \X (ids \ {qb[pos.i].id}))
    /\ issued' = Issue(issued, pos')
    /\ UNCHANGED <<roots, pc, call, recs, allRecsMap, nodes, links, isectReturned, isectTagged>>

\* a title search fails: the catch of the fallback
TitleSearchFails ==
    /\ UNCHANGED appVars
    /\ pc = "fetch" /\ pos.phase = "title"
    /\ failures < MaxFailures
    /\ failures' = failures + 1
    /\ pos' = SeekTitle(recsMap, QueryBooks(roots, call), pos.i + 1)
    /\ issued' = Issue(issued, pos')
    /\ UNCHANGED <<roots, pc, call, recsMap, recs, allRecsMap, nodes, links,
                   returnedFor, isectReturned, isectTagged, qualified>>

\* fetchRecommendationsForBooks sorts, slices and returns
FetchReturns ==
    /\ UNCHANGED appVars
    /\ pc = "fetch" /\ pos.phase = "ret"
    /\ recs' = FetchResult(recsMap)
    /\ pc' = "merge"
    /\ UNCHANGED <<roots, call, pos, recsMap, allRecsMap, nodes, links,
                   returnedFor, isectReturned, isectTagged, failures, qualified, issued>>

\* 3) to 5): the rec nodes and the links, and buildGraphData returns
Finish(all) ==
    /\ nodes' = AddRecNodes(nodes, SortEntries(all))
    /\ links' = AddLinks(links, SortEntries(all))
    /\ pc' = "done"
    /\ UNCHANGED <<call, pos, recsMap, qualified, issued>>

\* Step A goes on after its await: merge, then the next call or the end
StepAMerges ==
    /\ UNCHANGED appVars
    /\ pc = "merge" /\ call <= Len(roots)
    /\ LET all == MergeStepA(allRecsMap, Slice(recs, MAX_RECS_PER_ROOT)) IN
       /\ allRecsMap' = all
       /\ IF call < Len(roots) \/ RunsStepB(roots)
          THEN /\ call' = call + 1
               /\ recsMap' = <<>>
               /\ pos' = SeekIntersection(<<>>, QueryBooks(roots, call + 1), 1)
               /\ pc' = "fetch"
               /\ qualified' = {}
               /\ issued' = Issue(<<>>, pos')
               /\ UNCHANGED <<nodes, links>>
          ELSE Finish(all)
    /\ UNCHANGED <<roots, recs, returnedFor, isectReturned, isectTagged, failures>>

\* Step B goes on after its await: merge, then the end
StepBMerges ==
    /\ UNCHANGED appVars
    /\ pc = "merge" /\ call = Len(roots) + 1
    /\ LET all == MergeStepB(allRecsMap, Slice(recs, MAX_RECS_PER_ROOT),
                             [k \in 1..Len(roots) |-> roots[k].id]) IN
       /\ allRecsMap' = all
       /\ Finish(all)
    /\ UNCHANGED <<roots, recs, returnedFor, isectReturned, isectTagged, failures>>

Next ==
    \/ IntersectionResponse
    \/ PerRootResponse
    \/ SubjectSearchFails
    \/ TitleResponse
    \/ TitleSearchFails
    \/ FetchReturns
    \/ StepAMerges
    \/ StepBMerges

Spec == Init /\ [][Next]_vars

-----------------------------------------------------------------------------
\* The session: App.jsx and SearchBar.jsx

\* the works fetchWorkByID may find
Works == {bookA, bookB}
WorkOf(key) == CHOOSE w \in Works : w.id = key

\* the suggestions the search bar may show
Hits == {[key |-> w.id, title |-> w.title] : w \in Works}

\* SearchBar pickSuggestion (or handleSubmit with the first suggestion): the
\* timer is set with the onBookSearch of the current render of App
PickSuggestion(hit) ==
    /\ UNCHANGED buildVars
    /\ showSearch
    /\ Len(handlers) < MaxSelections
    /\ handlers' = Append(handlers, [pc |-> "timer", hit |-> hit,
                                     queryBooks |-> appQueryBooks,
                                     updatedQueries |-> <<>>])
    /\ UNCHANGED <<appQueryBooks, graphData, showSearch, alerts>>

\* the timer of pickSuggestion fires: handleBookSearch starts and awaits
\* fetchWorkByID
TimerFires(h) ==
    /\ UNCHANGED buildVars
    /\ handlers[h].pc = "timer"
    /\ handlers' = [handlers EXCEPT ![h].pc = "resolve"]
    /\ UNCHANGED <<appQueryBooks, graphData, showSearch, alerts>>

\* fetchWorkByID gives the work: handleBookSearch sets queryBooks and awaits
\* buildGraphData
ResolveSucceeds(h) ==
    /\ UNCHANGED buildVars
    /\ handlers[h].pc = "resolve"
    /\ LET workObj == WorkOf(handlers[h].hit.key)
           updatedQueries == Append(handlers[h].queryBooks, workObj)
       IN /\ appQueryBooks' = updatedQueries
          /\ handlers' = [handlers EXCEPT ![h].pc = "build",
                                          ![h].updatedQueries = updatedQueries]
    /\ UNCHANGED <<graphData, showSearch, alerts>>

\* mutant: after the alert handleBookSearch goes on and hides the search bar
ResolveFails_NoReturn(h) ==
    /\ UNCHANGED buildVars
    /\ handlers[h].pc = "resolve"
    /\ alerts' = alerts + 1
    /\ showSearch' = FALSE
    /\ handlers' = [handlers EXCEPT ![h].pc = "done"]
    /\ UNCHANGED <<appQueryBooks, graphData>>

\* fetchWorkByID gives null: handleBookSearch alerts and returns
ResolveFails(h) ==
    /\ UNCHANGED buildVars
    /\ handlers[h].pc = "resolve"
    /\ alerts' = alerts + 1
    /\ handlers' = [handlers EXCEPT ![h].pc = "done"]
    /\ UNCHANGED <<appQueryBooks, graphData, showSearch>>

\* buildGraphData returns: handleBookSearch sets graphData and hides the search bar
BuildReturns(h) ==
    /\ UNCHANGED buildVars
    /\ handlers[h].pc = "build"
    /\ graphData' = GraphOf(handlers[h].updatedQueries)
    /\ showSearch' = FALSE
    /\ handlers' = [handlers EXCEPT ![h].pc = "done"]
    /\ UNCHANGED <<appQueryBooks, alerts>>

\* the plus button: handleAddBook
HandleAddBook ==
    /\ UNCHANGED buildVars
    /\ ~showSearch
    /\ showSearch' = TRUE
    /\ UNCHANGED <<appQueryBooks, graphData, handlers, alerts>>

\* the session leaves the variables of one buildGraphData alone
InitSession ==
    /\ InitApp
    /\ roots = <<bookA>>
    /\ pc = "fetch"
    /\ call = 1
    /\ pos = SeekIntersection(<<>>, <<roots[1]>>, 1)
    /\ recsMap = <<>>
    /\ recs = <<>>
    /\ allRecsMap = <<>>
    /\ nodes = AddRootNodes(<<>>, roots)
    /\ links = <<>>
    /\ returnedFor = {}
    /\ isectReturned = {}
    /\ isectTagged = {}
    /\ failures = 0
    /\ qualified = {}
    /\ issued = Issue(<<>>, pos)

NextSession ==
    \/ \E hit \in Hits : PickSuggestion(hit)
    \/ \E h \in 1..Len(handlers) : TimerFires(h)
    \/ \E h \in 1..Len(handlers) : ResolveSucceeds(h)
    \/ \E h \in 1..Len(handlers) : ResolveFails(h)
    \/ \E h \in 1..Len(handlers) : BuildReturns(h)
    \/ HandleAddBook

SpecSession == InitSession /\ [][NextSession]_vars


----------------------------------------------------------------------------
\* What the properties speak of

RootIds == {roots[k].id : k \in 1..Len(roots)}
RecNodes == {nodes[k] : k \in {x \in 1..Len(nodes) : nodes[x].type = "rec"}}
NumRecNodes == Cardinality({k \in 1..Len(nodes) : nodes[k].type = "rec"})
DistinctIds(s) == \A x, y \in 1..Len(s) : s[x].id = s[y].id => x = y
LinksBetween(r, w) == {k \in 1..Len(links) : links[k].source = r /\ links[k].target = w}
WorksReturned == {p[2] : p \in returnedFor}

\* C1: fetchRecommendationsForBooks never returns more than 10 recommendations
C1_AtMostTen == Len(recs) <= 10

\* a call returned 10 recommendations after its lookups had returned more works
C1_Witness ==
    /\ pc = "merge" /\ call = 1
    /\ Len(recs) = 10
    /\ Cardinality(WorksReturned) > 10

\* C2: no recommendation returned by fetchRecommendationsForBooks or merged by
\* buildGraphData has the id of any root, and no link ends at a root
C2_NoRootRecommended ==
    /\ pc = "merge" =>
          \A k \in 1..Len(recs) :
             recs[k].id \notin Range(allRootIds(QueryBooks(roots, call)))
    /\ \A k \in 1..Len(allRecsMap) : allRecsMap[k].id \notin RootIds
    /\ \A k \in 1..Len(links) : links[k].target \notin RootIds

\* C3: the recommendations fetchRecommendationsForBooks returns have pairwise
\* distinct ids, and so have the nodes of buildGraphData
C3_DistinctIds == DistinctIds(recs) /\ DistinctIds(nodes)

\* a graph of a root sequence that holds a root twice, with a work that
\* searches made for the root returned more than once
C3_Witness ==
    /\ pc = "done"
    /\ Len(roots) = 2 /\ roots[1].id = roots[2].id
    /\ \E n \in RecNodes : n.isIntersection /\ <<roots[1].id, n.id>> \in returnedFor

\* C4: with one root no rec node is an intersection, every link has value 1
\* and goes from the root to a rec node
C4_SingleRoot ==
    (pc = "done" /\ Len(roots) = 1) =>
        /\ \A n \in RecNodes : ~n.isIntersection
        /\ \A k \in 1..Len(links) :
              /\ links[k].value = 1
              /\ links[k].source = roots[1].id
              /\ \E n \in RecNodes : n.id = links[k].target

C4_Witness == pc = "done" /\ Len(roots) = 1 /\ Len(links) >= 2

\* C5 as claimed: with 2 or more roots, when a lookup for a shared subject
\* returned any work, some rec node is an intersection
C5_AnyWorkGivesIntersection ==
    (pc = "done" /\ Len(roots) >= 2 /\ isectReturned # {}) =>
        \E n \in RecNodes : n.isIntersection

\* C5 amended: with 2 or more roots, when a lookup for a shared subject
\* returned a work with a key and a title that is not one of the roots, some
\* rec node is an intersection
C5_OtherWorkGivesIntersection ==
    (pc = "done" /\ Len(roots) >= 2 /\ isectReturned \ RootIds # {}) =>
        \E n \in RecNodes : n.isIntersection

C5_Witness == pc = "done" /\ Len(roots) >= 2 /\ isectReturned \ RootIds # {}

\* C6: in what fetchRecommendationsForBooks returns, a recommendation that
\* matches more roots comes first, and among those that match as many roots
\* the titles ascend
C6_Sorted ==
    \A x, y \in 1..Len(recs) :
        x < y =>
           /\ Len(recs[x].matchingBookIds) >= Len(recs[y].matchingBookIds)
           /\ Len(recs[x].matchingBookIds) = Len(recs[y].matchingBookIds)
                 => localeCompare(recs[x].title, recs[y].title) <= 0

\* a returned sequence that the sort reordered, both by the number of roots
\* and by the title
C6_Witness ==
    /\ pc = "merge"
    /\ recs # recsMap
    /\ \E x, y \in 1..Len(recs) :
          Len(recs[x].matchingBookIds) > Len(recs[y].matchingBookIds)
    /\ \E x, y \in 1..Len(recs) :
          /\ Len(recs[x].matchingBookIds) = Len(recs[y].matchingBookIds)
          /\ localeCompare(recs[x].title, recs[y].title) < 0

\* a work is in the graph as an intersection of all roots
IsIntersectionNode(w) ==
    /\ Cardinality({k \in 1..Len(nodes) : nodes[k].id = w}) = 1
    /\ \E n \in RecNodes :
          n.id = w /\ n.isIntersection /\ Range(n.matchingBookIds) = RootIds
    /\ \A r \in RootIds :
          /\ Cardinality(LinksBetween(r, w)) = 1
          /\ \A k \in LinksBetween(r, w) : links[k].value = 2

\* C7 as claimed: with 2 or more roots every work, not a root, that a lookup
\* for a shared subject returned is one rec node of all roots, an
\* intersection, with one link of value 2 from every root
C7_EveryReturnedWork ==
    (pc = "done" /\ Len(roots) >= 2) =>
        \A w \in isectReturned \ RootIds : IsIntersectionNode(w)

\* C7 amended: the same of every such work that the intersection pass
\* recorded, that is, met before the working map held 10 entries
C7_EveryRecordedWork ==
    (pc = "done" /\ Len(roots) >= 2) =>
        \A w \in isectTagged : IsIntersectionNode(w)

C7_Witness ==
    /\ pc = "done" /\ Cardinality(RootIds) >= 2
    /\ isectTagged # {}
    /\ isectTagged # isectReturned \ RootIds

\* C8: a rec node matches a root, and a link leaves the root for it, only if
\* a lookup made for that root returned the work
C8_OnlyReturnedForRoot ==
    pc = "done" =>
        /\ \A n \in RecNodes : \A r \in Range(n.matchingBookIds) :
              <<r, n.id>> \in returnedFor
        /\ \A k \in 1..Len(links) :
              <<links[k].source, links[k].target>> \in returnedFor

\* C9: a rec node is an intersection, and a link has value 2, only if a lookup
\* for a subject shared by all roots returned the work
C9_OnlyFromSharedSubject ==
    pc = "done" =>
        /\ \A n \in RecNodes : n.isIntersection => n.id \in isectReturned
        /\ \A k \in 1..Len(links) :
              links[k].value = 2 => links[k].target \in isectReturned

\* C10 as claimed: the graph never has more than 10 rec nodes
C10_TenRecNodes == NumRecNodes <= 10

\* C10 amended: the cap is 10 for each call of fetchRecommendationsForBooks:
\* at most 10 rec nodes with one root, at most 10 * (n + 1) with n roots
C10_TenPerCall ==
    /\ Len(roots) = 1 => NumRecNodes <= 10
    /\ NumRecNodes <= 10 * (Len(roots) + 1)

C10_Witness == pc = "done" /\ Len(roots) >= 2 /\ NumRecNodes > 10

\* the ids of the roots passed to the current call of fetchRecommendationsForBooks
CallRootIds == {QueryBooks(roots, call)[k].id : k \in 1..Len(QueryBooks(roots, call))}

\* ids is a non-empty collection of ids of the set among
NonEmptyWithin(ids, among) == ids # <<>> /\ Range(ids) \subseteq among

\* C11: the matchingBookIds of every entry of the working map, of every
\* returned recommendation, of every merged entry and of every rec node is a
\* non-empty subset of the ids of the roots of its call, and the source of
\* every link is the id of a root node
C11_MatchingIdsAreRoots ==
    /\ pc = "fetch" =>
          \A k \in 1..Len(recsMap) : NonEmptyWithin(recsMap[k].matchingBookIds, CallRootIds)
    /\ pc = "merge" =>
          \A k \in 1..Len(recs) : NonEmptyWithin(recs[k].matchingBookIds, CallRootIds)
    /\ \A k \in 1..Len(allRecsMap) : NonEmptyWithin(allRecsMap[k].matchingBookIds, RootIds)
    /\ \A n \in RecNodes : NonEmptyWithin(n.matchingBookIds, RootIds)
    /\ \A k \in 1..Len(links) :
          \E n \in Range(nodes) : n.type = "root" /\ n.id = links[k].source

\* a graph of two roots with a recommendation that matches both and one that
\* matches one of them
C11_Witness ==
    /\ pc = "done" /\ Cardinality(RootIds) >= 2
    /\ \E n \in RecNodes : Len(n.matchingBookIds) >= 2
    /\ \E n \in RecNodes : Len(n.matchingBookIds) = 1
    /\ Len(links) >= 3

\* the subject lookups issued so far in the current call
SubjectLookups == {p \in Range(issued) : p.phase \in {"isect", "perroot"}}

\* root b has a subject that is not generic in any case and is searched as slug
HasSpecificSubject(b, slug) ==
    \E k \in 1..Len(b.subjects) :
        /\ toLowerCase(b.subjects[k]) \notin GENERIC_SUBJECTS
        /\ slugify(b.subjects[k]) = slug

AllSubjectsGeneric(b) ==
    \A k \in 1..Len(b.subjects) : toLowerCase(b.subjects[k]) \in GENERIC_SUBJECTS

C12_AllGenericRoot ==
    LET qb == QueryBooks(roots, call) IN
    pc = "merge" /\ (\A k \in 1..Len(qb) : AllSubjectsGeneric(qb[k])) /\ issued # <<>>

\* C13: a lookup that fails leaves the working result map as it was
C13_FailureLeavesMap ==
    [][(pc = "fetch" /\ failures' > failures) => recsMap' = recsMap]_vars

\* C18: a work that a lookup of the current call returned for a root set, that
\* is not a root of the set and that the working map holds, matches every root
\* of the set
C18_ReturnedIsTagged ==
    pc \in {"fetch", "merge"} =>
        \A p \in qualified :
            HasId(recsMap, p[2]) =>
                InSeq(p[1], recsMap[IndexOfId(recsMap, p[2])].matchingBookIds)

\* the roots (by index) a title lookup was issued for in the current call
TitleSearched == {p.i : p \in {q \in Range(issued) : q.phase = "title"}}

\* the roots (by index) whose turn in the fallback loop has passed
TitleTurnPassed ==
    IF pc = "merge" THEN 1..Len(QueryBooks(roots, call))
    ELSE IF pc = "fetch" /\ pos.phase = "title" THEN 1..(pos.i - 1)
    ELSE {}

Precedes(p, q) ==
    LET phaseNo(x) == IF x.phase = "isect" THEN 1 ELSE IF x.phase = "perroot" THEN 2 ELSE 3
    IN \/ phaseNo(p) < phaseNo(q)
       \/ phaseNo(p) = phaseNo(q) /\ p.i < q.i
       \/ phaseNo(p) = phaseNo(q) /\ p.i = q.i /\ p.j < q.j

\* C20: the lookups of a call are issued in the order of the loops
\* (intersection subjects in list order, then per root its subjects in list
\* order, then the title fallbacks in root order), and a lookup is awaited
\* only while the working map holds fewer than 10 entries: none is issued
\* once it holds 10
C20_OrderAndShortCircuit ==
    /\ \A k, l \in 1..Len(issued) : k < l => Precedes(issued[k], issued[l])
    /\ (pc = "fetch" /\ pos.phase # "ret") =>
          /\ Len(recsMap) < MAX
          /\ issued # <<>> /\ issued[Len(issued)] = pos
    /\ (pc = "fetch" /\ Len(recsMap) >= MAX) => pos.phase = "ret"

\* a call is over with 10 entries though a root has a subject that was never
\* looked up for it alone and no title lookup was issued
C20_Witness ==
    LET qb == QueryBooks(roots, call) IN
    /\ pc = "merge"
    /\ Len(recsMap) = MAX
    /\ Len(issued) >= 3
    /\ \E i \in 1..Len(qb) :
          /\ FilteredSubjects(qb[i]) # <<>>
          /\ \A p \in Range(issued) : ~(p.phase = "perroot" /\ p.i = i)
    /\ TitleSearched = {}

\* C21: the links of the graph are one link from r to rec.id for each merged
\* recommendation rec and each root id r of its matchingBookIds, and no other:
\* no pair of source and target occurs twice, and the value of a link is 2 if
\* rec.isIntersection and 1 otherwise
C21_OneLinkPerMatch ==
    pc = "done" =>
        /\ \A k \in 1..Len(allRecsMap) :
              \A r \in Range(allRecsMap[k].matchingBookIds) :
                 /\ Cardinality(LinksBetween(r, allRecsMap[k].id)) = 1
                 /\ \A l \in LinksBetween(r, allRecsMap[k].id) :
                       links[l].value = IF allRecsMap[k].isIntersection THEN 2 ELSE 1
        /\ \A l \in 1..Len(links) :
              \E k \in 1..Len(allRecsMap) :
                 /\ allRecsMap[k].id = links[l].target
                 /\ InSeq(links[l].source, allRecsMap[k].matchingBookIds)
        /\ \A l, m \in 1..Len(links) :
              (links[l].source = links[m].source /\ links[l].target = links[m].target)
                 => l = m
        /\ \A l, m \in 1..Len(links) :
              links[l].target = links[m].target => links[l].value = links[m].value

\* a graph of two roots with a recommendation of both, linked with value 2,
\* and a recommendation of one of them, linked with value 1
C21_Witness ==
    /\ pc = "done" /\ Cardinality(RootIds) >= 2
    /\ \E k \in 1..Len(allRecsMap) :
          allRecsMap[k].isIntersection /\ Len(allRecsMap[k].matchingBookIds) >= 2
    /\ \E k \in 1..Len(allRecsMap) :
          ~allRecsMap[k].isIntersection /\ Len(allRecsMap[k].matchingBookIds) = 1
    /\ \E l, m \in 1..Len(links) : links[l].value = 2 /\ links[m].value = 1

\* C22: in nodes the root nodes come first, in the order of the roots, then
\* the rec nodes: one that matches more roots before one that matches fewer,
\* and those that match as many roots in ascending order of their titles
\* (stated for roots that differ)
C22_NodesRanked ==
    (pc = "done" /\ DistinctIds(roots)) =>
        /\ \A x, y \in 1..Len(nodes) :
              (x < y /\ nodes[y].type = "root") => nodes[x].type = "root"
        /\ \A x, y \in 1..Len(nodes) :
              (x < y /\ nodes[x].type = "root" /\ nodes[y].type = "root") =>
                 \E i, j \in 1..Len(roots) :
                    i < j /\ roots[i].id = nodes[x].id /\ roots[j].id = nodes[y].id
        /\ \A x, y \in 1..Len(nodes) :
              (x < y /\ nodes[x].type = "rec" /\ nodes[y].type = "rec") =>
                 /\ Len(nodes[x].matchingBookIds) >= Len(nodes[y].matchingBookIds)
                 /\ Len(nodes[x].matchingBookIds) = Len(nodes[y].matchingBookIds)
                       => localeCompare(nodes[x].label, nodes[y].label) <= 0

\* C23: no link of the graph has its source as its target
C23_NoSelfLink ==
    \A l \in 1..Len(links) : links[l].source # links[l].target

-----------------------------------------------------------------------------
\* The session

\* every selection made has run to its end
AllSettled == \A h \in 1..Len(handlers) : handlers[h].pc = "done"

IsPrefix(s, t) == Len(s) <= Len(t) /\ \A k \in 1..Len(s) : s[k] = t[k]

\* C14: queryBooks of App never holds two works with the same id
C14_NoDuplicateRoots ==
    \A i, j \in 1..Len(appQueryBooks) :
        appQueryBooks[i].id = appQueryBooks[j].id => i = j

\* C15: a step in which handleBookSearch reports that the work could not be
\* resolved changes none of queryBooks, graphData and showSearch and starts
\* no buildGraphData
C15_FailureAddsNothing ==
    [][alerts' # alerts =>
          /\ alerts' = alerts + 1
          /\ appQueryBooks' = appQueryBooks
          /\ graphData' = graphData
          /\ showSearch' = showSearch
          /\ \A h \in 1..Len(handlers) :
                handlers'[h].pc = "build" => handlers[h].pc = "build"]_vars

\* a work could not be resolved after a graph of one root was shown and the
\* search bar opened again: the root, the graph and the search bar are as before
C15_Witness ==
    /\ alerts > 0
    /\ AllSettled
    /\ Len(appQueryBooks) = 1
    /\ graphData = GraphOf(appQueryBooks)
    /\ showSearch

\* C16: once every selection has run to its end, graphData is the graph built
\* from queryBooks, the latest root sequence (stated for the sessions in which
\* the works selected differ and every resolved selection appended to the
\* roots that are now in queryBooks)
C16_LatestGraphShown ==
    ( /\ AllSettled
      /\ appQueryBooks # <<>>
      /\ DistinctIds(appQueryBooks)
      /\ \A h \in 1..Len(handlers) : IsPrefix(handlers[h].updatedQueries, appQueryBooks) )
    => graphData = GraphOf(appQueryBooks)

\* C17: every update of queryBooks appends one work to its previous value
C17_RootsOnlyGrow ==
    [][appQueryBooks' # appQueryBooks =>
          \E w \in Works : appQueryBooks' = Append(appQueryBooks, w)]_vars

====
